---- MODULE Spec2Model ----
(***************************************************************************)
(* A model of the zellij-nucleo Picker (src/src/lib.rs): the entry store,  *)
(* the ranking engine (Picker::search and the SearchResult comparator),    *)
(* the selection tracker, the Normal/Search key state machine and the      *)
(* effects of render on the picker state.                                  *)
(*                                                                         *)
(* Strings are sequences of one-character strings.  Indices are 0-based    *)
(* as in the source; a TLA+ sequence position is the index plus one.       *)
(***************************************************************************)
EXTENDS Integers, Sequences, FiniteSets, TLC

VARIABLES query, all_entries, search_results, selected, input_mode,
          needs_redraw, case_matching, match_paths,
          response, panicked, arms, oracle

vars == <<query, all_entries, search_results, selected, input_mode,
          needs_redraw, case_matching, match_paths,
          response, panicked, arms, oracle>>

(***************************************************************************)
(* Bounds of the model.                                                    *)
(***************************************************************************)
MaxEntries == 2
MaxQuery == 1
MaxRows == 3

(***************************************************************************)
(* Characters, strings and their order.                                    *)
(***************************************************************************)
Chars == {"a", "A", "/", "j", "k"}

\* The characters typed into the query in the runs explored.
QueryChars == {"a", "A", "/"}

\* The scalar value of a character (char as u32), which orders strings.
Code(c) ==
    CASE c = "/" -> 47
      [] c = "A" -> 65
      [] c = "a" -> 97
      [] c = "j" -> 106
      [] c = "k" -> 107
      [] c = "u" -> 117
      [] c = "c" -> 99
      [] c \in {"1", "2", "3", "4", "5", "6", "7", "8", "9"} ->
            48 + (CHOOSE d \in 1..9 :
                     c = <<"1", "2", "3", "4", "5", "6", "7", "8", "9">>[d])
      [] OTHER -> 0

IsUpper(c) == c = "A"

ToLower(c) == IF c = "A" THEN "a" ELSE c

RECURSIVE StrLess(_, _)
\* str::cmp == Less: lexicographic by character value, a proper prefix first.
StrLess(s, t) ==
    IF t = <<>> THEN FALSE
    ELSE IF s = <<>> THEN TRUE
    ELSE IF Code(Head(s)) < Code(Head(t)) THEN TRUE
    ELSE IF Code(Head(s)) > Code(Head(t)) THEN FALSE
    ELSE StrLess(Tail(s), Tail(t))

(***************************************************************************)
(* Entries offered by the host.                                            *)
(***************************************************************************)
Entry(s, d) == [string |-> s, data |-> d]

EntryPool ==
    { Entry(<<"a">>, 1), Entry(<<"A", "a">>, 2) }

RECURSIVE SeqsUpTo(_, _)
SeqsUpTo(S, n) ==
    IF n = 0 THEN { <<>> }
    ELSE LET shorter == SeqsUpTo(S, n - 1)
         IN  shorter \cup { Append(q, x) : q \in shorter, x \in S }

(***************************************************************************)
(* The scoring oracle (nucleo_matcher), called by Picker::search.  It is   *)
(* an external library: this is a deterministic stand-in that keeps what   *)
(* the picker depends on.  The query is split into whitespace-separated    *)
(* atoms; an atom matches a string when it is a subsequence of it, under   *)
(* the case policy; an empty pattern matches everything with score 0 and   *)
(* no indices; the score rewards a match at the start of the string (by an *)
(* amount that depends on the match_paths configuration) and adjacent      *)
(* matches, and penalises gaps; the indices of the atoms are appended in   *)
(* atom order.  None of the model's characters is special to the pattern   *)
(* parser.                                                                 *)
(***************************************************************************)
CaseMatchings == {"Respect", "Ignore", "Smart"}

RECURSIVE Atoms(_, _)
\* The whitespace-separated words of q; cur is the word being read.
Atoms(q, cur) ==
    IF q = <<>> THEN (IF cur = <<>> THEN <<>> ELSE <<cur>>)
    ELSE IF Head(q) = " "
         THEN (IF cur = <<>> THEN <<>> ELSE <<cur>>) \o Atoms(Tail(q), <<>>)
         ELSE Atoms(Tail(q), Append(cur, Head(q)))

HasUpper(s) == \E i \in 1..Len(s) : IsUpper(s[i])

IgnoreCase(atom, cm) == cm = "Ignore" \/ (cm = "Smart" /\ ~HasUpper(atom))

Needle(atom, cm) ==
    IF cm = "Ignore" THEN [i \in 1..Len(atom) |-> ToLower(atom[i])] ELSE atom

RECURSIVE Positions(_, _, _, _)
\* The leftmost positions (0-based) at which needle occurs in hay as a
\* subsequence, from position `from` on; ends in -1 when it does not occur.
Positions(needle, hay, from, ignore) ==
    IF needle = <<>> THEN <<>>
    ELSE IF from >= Len(hay) THEN <<-1>>
    ELSE IF (IF ignore THEN ToLower(hay[from + 1]) ELSE hay[from + 1]) = Head(needle)
         THEN <<from>> \o Positions(Tail(needle), hay, from + 1, ignore)
         ELSE Positions(needle, hay, from + 1, ignore)

RECURSIVE GapScore(_, _)
\* Bonus for adjacent matches, penalty for the gaps between matches.
GapScore(pos, i) ==
    IF i >= Len(pos) THEN 0
    ELSE (IF pos[i + 1] = pos[i] + 1 THEN 4 ELSE 0 - (2 + (pos[i + 1] - pos[i])))
         + GapScore(pos, i + 1)

AtomScore(pos, paths) ==
    LET raw == 16 * Len(pos)
               + (IF pos[1] = 0 THEN 2 * (IF paths THEN 9 ELSE 10) ELSE 0)
               + GapScore(pos, 1)
    IN  IF raw < 0 THEN 0 ELSE raw

NoMatch == [matched |-> FALSE, score |-> 0, indices |-> <<>>]

RECURSIVE PatternIndices(_, _, _, _)
\* Pattern::indices over the atoms: None as soon as one atom does not match,
\* else the sum of the scores and the indices appended atom by atom.
PatternIndices(atoms, hay, cm, paths) ==
    IF atoms = <<>> THEN [matched |-> TRUE, score |-> 0, indices |-> <<>>]
    ELSE LET atom == Head(atoms)
             pos  == Positions(Needle(atom, cm), hay, 0, IgnoreCase(atom, cm))
             rest == PatternIndices(Tail(atoms), hay, cm, paths)
         IN  IF pos[Len(pos)] = -1 \/ ~rest.matched THEN NoMatch
             ELSE [matched |-> TRUE,
                   score   |-> AtomScore(pos, paths) + rest.score,
                   indices |-> pos \o rest.indices]

Oracle(q, hay, cm, paths) == PatternIndices(Atoms(q, <<>>), hay, cm, paths)

(***************************************************************************)
(* SearchResult and its order (impl Ord for SearchResult).                 *)
(***************************************************************************)
SearchResult(e, score, indices) ==
    [entry |-> e, score |-> score, indices |-> indices]

\* indices.first() as an Option<&u32>: None orders before every Some.
FirstIndex(r) == IF r.indices = <<>> THEN -1 ELSE r.indices[1]

\* a.cmp(b) == Ordering::Less
ResultLess(a, b) ==
    IF a.score # b.score THEN a.score > b.score
    ELSE IF FirstIndex(a) # FirstIndex(b) THEN FirstIndex(a) < FirstIndex(b)
    ELSE StrLess(a.entry.string, b.entry.string)

\* r goes before the first element that is greater than it.
InsertSorted(sorted, r) ==
    LET after == { i \in 1..Len(sorted) : ResultLess(r, sorted[i]) }
        at    == IF after = {} THEN Len(sorted) + 1
                 ELSE CHOOSE i \in after : \A j \in after : i <= j
    IN  SubSeq(sorted, 1, at - 1) \o <<r>> \o SubSeq(sorted, at, Len(sorted))

RECURSIVE SortResults(_)
\* Vec::sort: a stable sort by the comparator.
SortResults(rs) ==
    IF rs = <<>> THEN <<>>
    ELSE InsertSorted(SortResults(SubSeq(rs, 1, Len(rs) - 1)), rs[Len(rs)])

\* The answers of the oracle for the entries, in store order.
OracleAnswers(entries, q, cm, paths) ==
    [i \in 1..Len(entries) |-> Oracle(q, entries[i].string, cm, paths)]

\* A collect that also drops the matches of score 0.
Collect_positive_scores(entries, answers) ==
    LET kept(i) == answers[i].matched /\ answers[i].score > 0
        F[i \in 0..Len(entries)] ==
            IF i = 0 THEN <<>>
            ELSE F[i - 1] \o (IF kept(i)
                              THEN <<SearchResult(entries[i], answers[i].score,
                                                  answers[i].indices)>>
                              ELSE <<>>)
    IN  F[Len(entries)]

RECURSIVE Collect(_, _)
\* The filter_map and collect of Picker::search, given the answer of the
\* oracle for each entry: the matching entries, in store order.
Collect(entries, answers) ==
    IF entries = <<>> THEN <<>>
    ELSE LET m == Head(answers)
         IN  (IF m.matched THEN <<SearchResult(Head(entries), m.score, m.indices)>>
              ELSE <<>>)
             \o Collect(Tail(entries), Tail(answers))

\* The filter_map of Picker::search with the answers of the oracle.
FilterMap(entries, q, cm, paths) ==
    Collect(entries, OracleAnswers(entries, q, cm, paths))

\* The re-rank of the entries under a query and a matching policy.
Rerank(entries, q, cm, paths) == SortResults(FilterMap(entries, q, cm, paths))

(***************************************************************************)
(* The picker as a value: the fields of struct Picker that the operations  *)
(* read and write.  The methods below map a picker to the picker after     *)
(* the call.                                                               *)
(***************************************************************************)
Picker ==
    [query          |-> query,
     all_entries    |-> all_entries,
     search_results |-> search_results,
     selected       |-> selected,
     input_mode     |-> input_mode,
     needs_redraw   |-> needs_redraw,
     case_matching  |-> case_matching,
     match_paths    |-> match_paths]

\* Responses of handle_key: Option<Response<T>>.
None == [kind |-> "None"]

Cancel == [kind |-> "Cancel"]

RespSelect(e) == [kind |-> "Select", entry |-> e]

\* What a call leaves behind: the picker, the value returned, and whether
\* the call panicked.
Returned(p, r) == [picker |-> p, resp |-> r, panic |-> FALSE]

Panic(p) == [picker |-> p, resp |-> None, panic |-> TRUE]

\* The index of the first result whose entry string is s, or 0.
FindIndex(rs, s) ==
    LET hits == { i \in 1..Len(rs) : rs[i].entry.string = s }
    IN  IF hits = {} THEN 0
        ELSE (CHOOSE i \in hits : \A j \in hits : i <= j) - 1

\* Picker::search, given the answer of the oracle for each entry
search_by(p, answers) ==
    LET had  == p.selected < Len(p.search_results)
        prev == IF had THEN p.search_results[p.selected + 1].entry
                ELSE Entry(<<>>, 0)
        rs   == SortResults(Collect(p.all_entries, answers))
    IN  [p EXCEPT !.search_results = rs,
                  !.selected = IF had THEN FindIndex(rs, prev.string) ELSE @,
                  !.needs_redraw = TRUE]

\* The oracle the picker is built with: nucleo_matcher, which Oracle stands
\* for, in every run of Spec.
Nucleo == [kind |-> "nucleo_matcher"]

\* An oracle given by its answers: a function of the query and the string.
Function(f) == [kind |-> "function", answer |-> f]

\* What the picker's oracle answers for each entry under the picker's query:
\* the answers of nucleo_matcher, or those of the oracle given as a function
\* of the query and the string.
Ask(p) ==
    IF oracle.kind = Nucleo.kind
    THEN OracleAnswers(p.all_entries, p.query, p.case_matching, p.match_paths)
    ELSE [i \in 1..Len(p.all_entries) |->
             oracle.answer[<<p.query, p.all_entries[i].string>>]]

\* Picker::search
search(p) == search_by(p, Ask(p))

\* down() that stops at the last result instead of wrapping around.
down_no_wrap(p) ==
    IF p.search_results = <<>> THEN p
    ELSE [p EXCEPT !.selected = IF p.selected + 1 < Len(p.search_results)
                                THEN p.selected + 1 ELSE p.selected,
                   !.needs_redraw = TRUE]

\* Picker::down
down(p) ==
    IF p.search_results = <<>> THEN p
    ELSE [p EXCEPT !.selected = (Len(p.search_results) + p.selected + 1)
                                % Len(p.search_results),
                   !.needs_redraw = TRUE]

\* Picker::up
up(p) ==
    IF p.search_results = <<>> THEN p
    ELSE [p EXCEPT !.selected = (Len(p.search_results) + p.selected - 1)
                                % Len(p.search_results),
                   !.needs_redraw = TRUE]

\* Picker::select
select(p, idx) == [p EXCEPT !.selected = idx, !.needs_redraw = TRUE]

\* clear() that empties the store and leaves the results as they are.
clear_without_search(p) == [p EXCEPT !.all_entries = <<>>, !.needs_redraw = TRUE]

\* Picker::clear
clear(p) == search([p EXCEPT !.all_entries = <<>>])

\* Picker::extend
extend(p, new) == search([p EXCEPT !.all_entries = @ \o new])

\* Picker::use_case_matching_respect / _ignore / _smart
use_case_matching(p, cm) == [p EXCEPT !.case_matching = cm]

\* Picker::set_match_paths
set_match_paths(p) == [p EXCEPT !.match_paths = TRUE]

\* Picker::clear_match_paths
clear_match_paths(p) == [p EXCEPT !.match_paths = FALSE]

\* Picker::enter_search_mode
enter_search_mode(p) == [p EXCEPT !.input_mode = "Search"]

\* Picker::enter_normal_mode
enter_normal_mode(p) == [p EXCEPT !.input_mode = "Normal"]

(***************************************************************************)
(* Key events (KeyWithModifier): a bare key and a set of modifiers.        *)
(***************************************************************************)
Key(bare, ch, mods) == [bare |-> bare, ch |-> ch, mods |-> mods]

CharKey(c) == Key("Char", c, {})

CtrlKey(c) == Key("Char", c, {"Ctrl"})

Bare(b) == Key(b, "", {})

\* The digit keys of the runs explored: below, at and above the number of
\* results, and 9.
Digits == {"1", "2", "3", "9"}

Keys ==
    { CharKey(c) : c \in Chars \cup Digits }
    \cup { CtrlKey("u"), CtrlKey("c"), CtrlKey("/"),
           Key("Char", "c", {"Ctrl", "Shift"}) }
    \cup { Bare("Tab"), Bare("Down"), Bare("Up"), Bare("Esc"), Bare("Enter"),
           Bare("Backspace"), Bare("Left") }
    \cup { Key("Tab", "", {"Shift"}), Key("Esc", "", {"Shift"}) }

has_no_modifiers(k) == k.mods = {}

has_modifiers(k, ms) == ms \subseteq k.mods

IsChar(k, c) == k.bare = "Char" /\ k.ch = c

\* c.to_digit(10) of a character '1'..'9'
ToDigit(c) == Code(c) - 48

\* The arm of the match in handle_global_key that a key takes.
global_binding(k) ==
    IF k.bare = "Tab" /\ has_no_modifiers(k) THEN "down"
    ELSE IF k.bare = "Down" /\ has_no_modifiers(k) THEN "down"
    ELSE IF k.bare = "Tab" /\ has_modifiers(k, {"Shift"}) THEN "up"
    ELSE IF k.bare = "Up" /\ has_no_modifiers(k) THEN "up"
    ELSE IF k.bare = "Esc" /\ has_no_modifiers(k) THEN "normal"
    ELSE IF IsChar(k, "c") /\ has_modifiers(k, {"Ctrl"}) THEN "cancel"
    ELSE IF k.bare = "Enter" /\ has_no_modifiers(k) THEN "select"
    ELSE "none"

\* Picker::handle_global_key
handle_global_key(p, k) ==
    LET b == global_binding(k)
    IN  IF b = "down" THEN Returned(down(p), None)
        ELSE IF b = "up" THEN Returned(up(p), None)
        ELSE IF b = "normal"
             THEN Returned([p EXCEPT !.input_mode = "Normal",
                                     !.needs_redraw = TRUE], None)
        ELSE IF b = "cancel" THEN Returned(p, Cancel)
        ELSE IF b = "select"
             THEN IF p.selected < Len(p.search_results)
                  THEN Returned(p, RespSelect(
                           p.search_results[p.selected + 1].entry))
                  ELSE Panic(p)
        ELSE Returned(p, None)

\* The match of handle_normal_key with a `/` arm that does not look at the
\* modifiers.
normal_binding_any_modifiers(k) ==
    IF IsChar(k, "j") /\ has_no_modifiers(k) THEN "down"
    ELSE IF IsChar(k, "k") /\ has_no_modifiers(k) THEN "up"
    ELSE IF k.bare = "Char" /\ k.ch \in {"1", "2", "3", "4", "5", "6", "7", "8"}
            /\ has_no_modifiers(k) THEN "digit"
    ELSE IF IsChar(k, "9") /\ has_no_modifiers(k) THEN "last"
    ELSE IF IsChar(k, "/") THEN "search"
    ELSE "none"

\* The match of handle_normal_key with an arm for Tab next to the one for j.
normal_binding_also_tab(k) ==
    IF (IsChar(k, "j") \/ k.bare = "Tab") /\ has_no_modifiers(k) THEN "down"
    ELSE IF IsChar(k, "k") /\ has_no_modifiers(k) THEN "up"
    ELSE IF k.bare = "Char" /\ k.ch \in {"1", "2", "3", "4", "5", "6", "7", "8"}
            /\ has_no_modifiers(k) THEN "digit"
    ELSE IF IsChar(k, "9") /\ has_no_modifiers(k) THEN "last"
    ELSE IF IsChar(k, "/") /\ has_no_modifiers(k) THEN "search"
    ELSE "none"

\* The arm of the match in handle_normal_key that a key takes.
normal_binding(k) ==
    IF IsChar(k, "j") /\ has_no_modifiers(k) THEN "down"
    ELSE IF IsChar(k, "k") /\ has_no_modifiers(k) THEN "up"
    ELSE IF k.bare = "Char" /\ k.ch \in {"1", "2", "3", "4", "5", "6", "7", "8"}
            /\ has_no_modifiers(k) THEN "digit"
    ELSE IF IsChar(k, "9") /\ has_no_modifiers(k) THEN "last"
    ELSE IF IsChar(k, "/") /\ has_no_modifiers(k) THEN "search"
    ELSE "none"

\* handle_normal_key with a `9` arm that returns the ninth result.
handle_normal_key_ninth(p, k) ==
    LET b == normal_binding(k)
    IN  IF b = "down" THEN Returned(down(p), None)
        ELSE IF b = "up" THEN Returned(up(p), None)
        ELSE IF b \in {"digit", "last"}
             THEN LET position == ToDigit(k.ch) - 1
                  IN  IF position < Len(p.search_results)
                      THEN Returned(p, RespSelect(
                               p.search_results[position + 1].entry))
                      ELSE Returned(p, None)
        ELSE IF b = "search"
             THEN Returned([p EXCEPT !.input_mode = "Search",
                                     !.needs_redraw = TRUE], None)
        ELSE Returned(p, None)

\* Picker::handle_normal_key
handle_normal_key(p, k) ==
    LET b == normal_binding(k)
    IN  IF b = "down" THEN Returned(down(p), None)
        ELSE IF b = "up" THEN Returned(up(p), None)
        ELSE IF b = "digit"
             THEN LET position == ToDigit(k.ch) - 1
                  IN  IF position < Len(p.search_results)
                      THEN Returned(p, RespSelect(
                               p.search_results[position + 1].entry))
                      ELSE Returned(p, None)
        ELSE IF b = "last"
             THEN IF p.search_results # <<>>
                  THEN Returned(p, RespSelect(
                           p.search_results[Len(p.search_results)].entry))
                  ELSE Returned(p, None)
        ELSE IF b = "search"
             THEN Returned([p EXCEPT !.input_mode = "Search",
                                     !.needs_redraw = TRUE], None)
        ELSE Returned(p, None)

\* String::pop
Pop(s) == IF s = <<>> THEN s ELSE SubSeq(s, 1, Len(s) - 1)

\* The arm of the match in handle_search_key that a key takes.
search_binding(k) ==
    IF k.bare = "Char" /\ has_no_modifiers(k) THEN "push"
    ELSE IF IsChar(k, "u") /\ has_modifiers(k, {"Ctrl"}) THEN "clear"
    ELSE IF k.bare = "Backspace" /\ has_no_modifiers(k) THEN "pop"
    ELSE "none"

\* handle_search_key that leaves the selection to search().
handle_search_key_keep_selection(p, k) ==
    LET b == search_binding(k)
    IN  IF b = "push"
        THEN Returned(search([p EXCEPT !.query = Append(@, k.ch)]), None)
        ELSE IF b = "clear"
        THEN Returned(search([p EXCEPT !.query = <<>>]), None)
        ELSE IF b = "pop"
        THEN Returned(search([p EXCEPT !.query = Pop(@)]), None)
        ELSE Returned(p, None)

\* Picker::handle_search_key
handle_search_key(p, k) ==
    LET b == search_binding(k)
    IN  IF b = "push"
        THEN Returned([search([p EXCEPT !.query = Append(@, k.ch)])
                          EXCEPT !.selected = 0], None)
        ELSE IF b = "clear"
        THEN Returned([search([p EXCEPT !.query = <<>>])
                          EXCEPT !.selected = 0], None)
        ELSE IF b = "pop"
        THEN Returned([search([p EXCEPT !.query = Pop(@)])
                          EXCEPT !.selected = 0], None)
        ELSE Returned(p, None)

\* handle_key that runs the Search bindings in either mode.
handle_key_any_mode(p, k) ==
    LET g == handle_global_key(p, k)
    IN  IF g.panic \/ g.resp # None THEN g
        ELSE handle_search_key(g.picker, k)

\* Picker::handle_key: the global bindings, then (when they returned nothing)
\* the bindings of the mode the picker is in by then.
handle_key(p, k) ==
    LET g == handle_global_key(p, k)
    IN  IF g.panic \/ g.resp # None THEN g
        ELSE IF g.picker.input_mode = "Normal"
             THEN handle_normal_key(g.picker, k)
             ELSE handle_search_key(g.picker, k)

(***************************************************************************)
(* Picker::render, as far as the picker state goes: what it shows is the   *)
(* page of the selected result; it panics on a page size of zero; the      *)
(* subtraction cols - 6 is evaluated for the first character of every      *)
(* visible row, and with cols < 6 it overflows: a build with overflow      *)
(* checks panics there, a build without them wraps around.                 *)
(***************************************************************************)
Cols == {3, 8}

\* visible_entries that scroll with the selection: the window starts at the
\* selected result.
visible_entries_scrolling(p, rows) ==
    LET count == rows - 1
        n     == Len(p.search_results)
    IN  IF p.selected >= n THEN <<>>
        ELSE SubSeq(p.search_results, p.selected + 1,
                    IF p.selected + count < n THEN p.selected + count ELSE n)

\* The visible_entries of render, for rows >= 2.
visible_entries(p, rows) ==
    LET count == rows - 1
        first == (p.selected \div count) * count
        n     == Len(p.search_results)
    IN  IF first >= n THEN <<>>
        ELSE SubSeq(p.search_results, first + 1,
                    IF first + count < n THEN first + count ELSE n)

\* Whether render evaluates cols - 6 with cols < 6.
ColsUnderflow(p, rows, cols) ==
    /\ cols < 6
    /\ \E i \in 1..Len(visible_entries(p, rows)) :
          visible_entries(p, rows)[i].entry.string # <<>>

\* render that keeps the row of the selection within the page as the
\* selected index.
render_stores_visible_selected(p, rows, cols, checked) ==
    IF rows = 0 THEN Returned(p, None)
    ELSE IF rows - 1 = 0 THEN Panic(p)
    ELSE IF checked /\ ColsUnderflow(p, rows, cols) THEN Panic(p)
    ELSE Returned([p EXCEPT !.selected = p.selected % (rows - 1),
                            !.needs_redraw = FALSE], None)

\* Picker::render; checked says whether the build checks for overflow.
render(p, rows, cols, checked) ==
    IF rows = 0 THEN Returned(p, None)
    ELSE IF rows - 1 = 0 THEN Panic(p)
    ELSE IF checked /\ ColsUnderflow(p, rows, cols) THEN Panic(p)
    ELSE Returned([p EXCEPT !.needs_redraw = FALSE], None)

(***************************************************************************)
(* What Picker::render prints: the frame, a sequence of lines, each a      *)
(* sequence of cells (a character and the colour it is printed in).  The   *)
(* first line is the query line, the others are the rows of the visible    *)
(* results.  A call that panics has printed the lines before the panic.    *)
(***************************************************************************)
Cell(c, colour) == [c |-> c, colour |-> colour]

\* A string printed in one colour ("" for none).
Text(str, colour) == [i \in 1..Len(str) |-> Cell(str[i], colour)]

Placeholder ==
    <<"(", "p", "r", "e", "s", "s", " ", "/", " ", "t", "o", " ",
      "s", "e", "a", "r", "c", "h", ")">>

Ellipsis == <<" ", "[", ".", ".", ".", "]">>

\* c.width().unwrap_or(0): every character of the model is one column wide.
Width(c) == 1

\* The first line of the frame: the margin, then the query (with the cursor
\* in Search mode) or the placeholder.
QueryLine(p) ==
    Text(<<" ", " ">>, "")
    \o (IF p.input_mode = "Normal" /\ p.query = <<>>
        THEN Text(Placeholder, "BrightBlack")
        ELSE Text(p.query, "")
             \o (IF p.input_mode = "Search" THEN <<Cell(" ", "bg Green")>>
                 ELSE <<>>))

\* visible_selected of render, for rows >= 2.
visible_selected(p, rows) == p.selected % (rows - 1)

\* current_col + width > cols - 6 in usize arithmetic.  With cols < 6 this
\* is evaluated only in a build without overflow checks, where cols - 6
\* wraps around to usize::MAX - 5 + cols, which no column reaches.
PastLimit(col, cols) == IF cols >= 6 THEN col > cols - 6 ELSE FALSE

RECURSIVE RowChars(_, _, _, _, _)
\* The loop over the characters of a result, from character char_idx on,
\* with current_col columns written so far.
RowChars(r, is_selected, cols, char_idx, current_col) ==
    IF char_idx >= Len(r.entry.string) THEN <<>>
    ELSE LET c     == r.entry.string[char_idx + 1]
             width == Width(c)
         IN  IF PastLimit(current_col + width, cols)
             THEN Text(Ellipsis, "BrightBlack")
             ELSE <<Cell(c, IF \E i \in 1..Len(r.indices) :
                                  r.indices[i] = char_idx THEN "Cyan"
                               ELSE IF is_selected THEN "Yellow"
                               ELSE "")>>
                  \o RowChars(r, is_selected, cols, char_idx + 1,
                              current_col + width)

\* The line of the i-th visible result (i counts from 0).
Row(r, is_selected, cols) ==
    (IF is_selected THEN <<Cell(">", "Yellow"), Cell(" ", "")>>
     ELSE Text(<<" ", " ">>, ""))
    \o RowChars(r, is_selected, cols, 0, 2)

\* The frame that render prints.
Frame(p, rows, cols, checked) ==
    IF rows = 0 THEN <<>>
    ELSE IF rows - 1 = 0 THEN <<>>
    ELSE IF checked /\ ColsUnderflow(p, rows, cols) THEN <<QueryLine(p)>>
    ELSE <<QueryLine(p)>>
         \o [i \in 1..Len(visible_entries(p, rows)) |->
                Row(visible_entries(p, rows)[i],
                    i - 1 = visible_selected(p, rows), cols)]

(***************************************************************************)
(* Picker::load: the three recognised options of the configuration, each   *)
(* absent, set to a recognised value, or set to something else.            *)
(***************************************************************************)
Absent == "(absent)"

Configurations ==
    [nucleo_case_matching : {Absent, "respect", "ignore", "smart", "bogus"},
     nucleo_match_paths : {Absent, "true", "false", "bogus"},
     nucleo_start_in_search_mode : {Absent, "true", "false", "bogus"}]

\* Picker::load
load(p, cfg) ==
    LET c == cfg.nucleo_case_matching
        m == cfg.nucleo_match_paths
        s == cfg.nucleo_start_in_search_mode
        p1 == IF c = "respect" THEN use_case_matching(p, "Respect")
              ELSE IF c = "ignore" THEN use_case_matching(p, "Ignore")
              ELSE IF c = "smart" THEN use_case_matching(p, "Smart")
              ELSE p
        p2 == IF m = "true" THEN set_match_paths(p1)
              ELSE IF m = "false" THEN clear_match_paths(p1)
              ELSE p1
        p3 == IF s = "true" THEN enter_search_mode(p2)
              ELSE IF s = "false" THEN enter_normal_mode(p2)
              ELSE p2
    IN  IF c \notin {Absent, "respect", "ignore", "smart"} THEN Panic(p)
        ELSE IF m \notin {Absent, "true", "false"} THEN Panic(p1)
        ELSE IF s \notin {Absent, "true", "false"} THEN Panic(p2)
        ELSE Returned(p3, None)

(***************************************************************************)
(* The state machine.  `response` is what the last call returned,          *)
(* `panicked` whether it panicked (the plugin is then dead), and `arms`    *)
(* the code path of the last call when it was a key event: the arms of the *)
(* matches of handle_global_key and of the mode's handler that the key     *)
(* took ("-" for a handler that did not run).  `oracle` is the scoring     *)
(* oracle the picker is built with.                                        *)
(***************************************************************************)
NoArms == <<"-", "-">>

\* The arms that handle_key takes for key k on picker p.
Arms(p, k) ==
    LET g == handle_global_key(p, k)
    IN  <<global_binding(k),
          IF g.panic \/ g.resp # None THEN "-"
          ELSE IF g.picker.input_mode = "Normal" THEN normal_binding(k)
          ELSE search_binding(k)>>

\* #[derive(Default)] struct Picker
Default ==
    [query          |-> <<>>,
     all_entries    |-> <<>>,
     search_results |-> <<>>,
     selected       |-> 0,
     input_mode     |-> "Normal",
     needs_redraw   |-> FALSE,
     case_matching  |-> "Smart",
     match_paths    |-> FALSE]

Init ==
    /\ query = Default.query
    /\ all_entries = Default.all_entries
    /\ search_results = Default.search_results
    /\ selected = Default.selected
    /\ input_mode = Default.input_mode
    /\ needs_redraw = Default.needs_redraw
    /\ case_matching = Default.case_matching
    /\ match_paths = Default.match_paths
    /\ response = None
    /\ panicked = FALSE
    /\ arms = NoArms
    /\ oracle = Nucleo

\* The picker and the outcome of a call become the next state.
Becomes(r, a) ==
    /\ query' = r.picker.query
    /\ all_entries' = r.picker.all_entries
    /\ search_results' = r.picker.search_results
    /\ selected' = r.picker.selected
    /\ input_mode' = r.picker.input_mode
    /\ needs_redraw' = r.picker.needs_redraw
    /\ case_matching' = r.picker.case_matching
    /\ match_paths' = r.picker.match_paths
    /\ response' = r.resp
    /\ panicked' = r.panic
    /\ arms' = a
    /\ oracle' = oracle

\* The lists of entries the host can replace the store with.
Lists == SeqsUpTo(EntryPool, MaxEntries) \ { <<>> }

\* The batches of entries the host can add to the store.
Batches == { b \in Lists : Len(all_entries) + Len(b) <= MaxEntries }

\* Picker::update with a key event
UpdateKey(k) ==
    /\ ~panicked
    /\ (input_mode = "Search" /\ search_binding(k) = "push")
          => (Len(query) < MaxQuery /\ k.ch \in QueryChars)
    /\ Becomes(handle_key(Picker, k), Arms(Picker, k))

\* Picker::update with any other event
UpdateOther ==
    /\ ~panicked
    /\ Becomes(Returned(Picker, None), NoArms)

\* Picker::render, in a build with or without overflow checks
Render(rows, cols) ==
    /\ ~panicked
    /\ \E r \in { render(Picker, rows, cols, checked) : checked \in BOOLEAN } :
          Becomes(r, NoArms)

Select(idx) ==
    /\ ~panicked
    /\ Becomes(Returned(select(Picker, idx), None), NoArms)

Clear ==
    /\ ~panicked
    /\ Becomes(Returned(clear(Picker), None), NoArms)

Extend(new) ==
    /\ ~panicked
    /\ Becomes(Returned(extend(Picker, new), None), NoArms)

\* The list update of the crate's usage example: clear(), then extend(..).
Replace(new) ==
    /\ ~panicked
    /\ Becomes(Returned(extend(clear(Picker), new), None), NoArms)

UseCaseMatching(cm) ==
    /\ ~panicked
    /\ Becomes(Returned(use_case_matching(Picker, cm), None), NoArms)

SetMatchPaths ==
    /\ ~panicked
    /\ Becomes(Returned(set_match_paths(Picker), None), NoArms)

ClearMatchPaths ==
    /\ ~panicked
    /\ Becomes(Returned(clear_match_paths(Picker), None), NoArms)

EnterSearchMode ==
    /\ ~panicked
    /\ Becomes(Returned(enter_search_mode(Picker), None), NoArms)

EnterNormalMode ==
    /\ ~panicked
    /\ Becomes(Returned(enter_normal_mode(Picker), None), NoArms)

\* Picker::load, which the plugin calls from its own load, before anything else
Load(cfg) ==
    /\ ~panicked
    /\ Picker = Default
    /\ arms = NoArms
    /\ Becomes(load(Picker, cfg), NoArms)

Next ==
    \/ \E k \in Keys : UpdateKey(k)
    \/ UpdateOther
    \/ \E rows \in 0..MaxRows, cols \in Cols : Render(rows, cols)
    \/ \E idx \in 0..(Len(all_entries) - 1) : Select(idx)
    \/ Clear
    \/ \E new \in Batches : Extend(new)
    \/ \E new \in Lists : Replace(new)
    \/ \E cm \in CaseMatchings : UseCaseMatching(cm)
    \/ SetMatchPaths
    \/ ClearMatchPaths
    \/ EnterSearchMode
    \/ EnterNormalMode
    \/ \E cfg \in Configurations : Load(cfg)

Spec == Init /\ [][Next]_vars

(***************************************************************************)
(* The ranking engine with any deterministic scoring oracle: a function of *)
(* the query and the candidate string that answers "no match" or a score   *)
(* and the matched positions, in any order.  The store is filled and       *)
(* emptied and the query is edited, as in Spec.                            *)
(***************************************************************************)
MaxRanked == 2

RankPool == { Entry(<<"a", "A">>, 1), Entry(<<"A", "a">>, 2) }

RankQueries == { <<>>, <<"a">> }

Match(score, indices) == [matched |-> TRUE, score |-> score, indices |-> indices]

OracleAnswerSet ==
    { NoMatch, Match(0, <<>>), Match(1, <<0, 1>>), Match(1, <<1, 0>>) }

Oracles ==
    { Function(f) :
         f \in [RankQueries \X { e.string : e \in RankPool } -> OracleAnswerSet] }

RankInit ==
    /\ Init!1 /\ Init!2 /\ Init!3 /\ Init!4 /\ Init!5 /\ Init!6 /\ Init!7
    /\ Init!8 /\ Init!9 /\ Init!10 /\ Init!11
    /\ oracle \in Oracles \cup { Nucleo }

RankBatches ==
    { b \in SeqsUpTo(RankPool, MaxRanked) \ { <<>> } :
         Len(all_entries) + Len(b) <= MaxRanked }

RankKeys == { CharKey("a"), CtrlKey("u"), Bare("Backspace"), Bare("Tab") }

\* A key event that leaves the query among those the oracle is given for.
RankKey(k) ==
    /\ (input_mode = "Search" /\ search_binding(k) = "push")
          => Append(query, k.ch) \in RankQueries
    /\ UpdateKey(k)

RankNext ==
    \/ \E new \in RankBatches : Extend(new)
    \/ Clear
    \/ EnterSearchMode
    \/ \E k \in RankKeys : RankKey(k)

RankSpec == RankInit /\ [][RankNext]_vars

(***************************************************************************)
(* The renderer on longer lists: the host has filled the store of a fresh  *)
(* picker, or of one in which a query was typed, and then the selection    *)
(* moves and frames of every size are rendered.                            *)
(***************************************************************************)
MaxShown == 9

MaxFrameRows == 5

MaxCols == 11

ShownStrings ==
    << <<"a">>, <<"A">>, <<>>, <<"a", "a">>, <<"a", "A">>, <<"A", "a">>,
       <<"a", "a", "a">>, <<"a", "A", "a">>, <<"A", "a", "a">>,
       <<"A", "A">>, <<"A", "A", "a">> >>

\* The first n entries that the host offers.
ShownList(n) == [i \in 1..n |-> Entry(ShownStrings[i], i)]

\* The picker after `/`, the query q and (in Normal mode) Esc.
Typed(q, mode) ==
    IF q = <<>> /\ mode = "Normal" THEN Default
    ELSE [Default EXCEPT !.query = q, !.input_mode = mode,
                         !.needs_redraw = TRUE]

RenderInit ==
    /\ oracle = Nucleo
    /\ response = None
    /\ panicked = FALSE
    /\ arms = NoArms
    /\ \E n \in 0..MaxShown, q \in { <<>>, <<"a">> },
          mode \in { "Normal", "Search" } :
          LET p == extend(Typed(q, mode), ShownList(n))
          IN  /\ query = p.query
              /\ all_entries = p.all_entries
              /\ search_results = p.search_results
              /\ selected = p.selected
              /\ input_mode = p.input_mode
              /\ needs_redraw = p.needs_redraw
              /\ case_matching = p.case_matching
              /\ match_paths = p.match_paths

RenderKeys == { Bare("Tab"), Key("Tab", "", {"Shift"}) }

RenderNext ==
    \/ \E k \in RenderKeys : UpdateKey(k)
    \/ \E rows \in 0..MaxFrameRows, cols \in 0..MaxCols : Render(rows, cols)

RenderSpec == RenderInit /\ [][RenderNext]_vars

(***************************************************************************)
(* Claims.                                                                 *)
(***************************************************************************)
Strings(rs) == { rs[i].entry.string : i \in 1..Len(rs) }

HasSelected == selected < Len(search_results)

SelectedString == search_results[selected + 1].entry.string

\* C1: in every reachable state `selected` is a valid index into
\* `search_results`, or is 0 when `search_results` is empty.
C1_SelectedValid ==
    \/ selected < Len(search_results)
    \/ (search_results = <<>> /\ selected = 0)

\* C2: handle_key completes without a fault for every key event in every
\* reachable state; Enter on an empty result list returns no Response.
C2_KeysNeverFault ==
    arms # NoArms => ~panicked

\* C3: after every public operation `search_results` is the re-rank of the
\* current `all_entries` under the current `query` and matching policy.
C3_ResultsAreRerank ==
    search_results = Rerank(all_entries, query, case_matching, match_paths)

\* C4: every operation that changes the query, the input mode, the selected
\* index or the entry list leaves `needs_redraw` true, and only render()
\* changes `needs_redraw` from true to false.
C4_RedrawFlag ==
    [][ /\ ( /\ \/ \E k \in Keys : UpdateKey(k)
                \/ Clear
                \/ \E new \in Batches : Extend(new)
                \/ \E new \in Lists : Replace(new)
                \/ \E idx \in 0..(Len(all_entries) - 1) : Select(idx)
                \/ EnterSearchMode
                \/ EnterNormalMode
             /\ ~panicked'
             /\ \/ query' # query
                \/ input_mode' # input_mode
                \/ selected' # selected
                \/ all_entries' # all_entries )
           => needs_redraw'
        /\ (needs_redraw /\ ~needs_redraw')
           => \E rows \in 0..MaxRows, cols \in Cols : Render(rows, cols) ]_vars

\* C5: after clear() followed by extend(new entries), the entry selected
\* before the replace is still the selected one when its string is among
\* the new results.
C5_ReplaceKeepsSelection ==
    [][ ( /\ \E new \in Lists : Replace(new)
          /\ HasSelected
          /\ SelectedString \in Strings(search_results') )
        => ( /\ selected' < Len(search_results')
             /\ search_results'[selected' + 1].entry.string = SelectedString )
      ]_vars

\* C6: after a re-rank triggered by extend() or clear(), `selected` is the
\* index of the first new result with the string selected before, and 0 in
\* every other case (the string is gone, or no result was selected before).
C6_Reconcile ==
    [][ (Clear \/ \E new \in Batches : Extend(new))
        => IF HasSelected /\ SelectedString \in Strings(search_results')
           THEN /\ selected' < Len(search_results')
                /\ search_results'[selected' + 1].entry.string = SelectedString
                /\ \A i \in 1..selected' :
                      search_results'[i].entry.string # SelectedString
           ELSE selected' = 0
      ]_vars

\* C7: after select(idx) with idx below the number of entries, the entry
\* that Enter returns is entries()[idx].
C7_SelectForcesEntry ==
    \A idx \in 0..(Len(all_entries) - 1) :
        LET r == handle_key(select(Picker, idx), Bare("Enter"))
        IN  ~r.panic /\ r.resp = RespSelect(all_entries[idx + 1])

RECURSIVE Times(_, _, _)
\* The selected index after n down() moves (dir = 1) or n up() moves.
Times(p, dir, n) ==
    IF n = 0 THEN p.selected
    ELSE Times(IF dir = 1 THEN down(p) ELSE up(p), dir, n - 1)

\* C8: with N >= 1 results and `selected` in range, N down() moves or N up()
\* moves return `selected` to where it was, up() undoes down(), each move
\* changes the index by one modulo N, and the keys bound to the moves
\* (Tab, Down, Shift+Tab, Up, and j, k in Normal mode) make them.
C8_CyclicNavigation ==
    LET n == Len(search_results)
        after(k) == handle_key(Picker, k).picker.selected
    IN  (n >= 1 /\ selected < n)
        => /\ Times(Picker, 1, n) = selected
           /\ Times(Picker, 0, n) = selected
           /\ up(down(Picker)).selected = selected
           /\ down(Picker).selected = (selected + 1) % n
           /\ up(Picker).selected = (selected + n - 1) % n
           /\ \A k \in {Bare("Tab"), Bare("Down")} :
                 after(k) = (selected + 1) % n
           /\ \A k \in {Key("Tab", "", {"Shift"}), Bare("Up")} :
                 after(k) = (selected + n - 1) % n
           /\ input_mode = "Normal"
                 => /\ after(CharKey("j")) = (selected + 1) % n
                    /\ after(CharKey("k")) = (selected + n - 1) % n

\* Tab has wrapped the selection around from the last result to the first.
C8_Witness ==
    /\ arms = <<"down", "none">>
    /\ Len(search_results) >= 2
    /\ Len(search_results) = Len(all_entries)
    /\ selected = 0
    /\ needs_redraw

\* C9: `/` without modifiers takes Normal to Search, Esc without modifiers
\* takes Search to Normal, Ctrl+C returns Cancel in either mode, and no
\* other key event changes the mode; in Search mode `/` goes to the query.
C9_ModeTransitions ==
    \A k \in Keys :
        LET r == handle_key(Picker, k)
        IN  /\ (input_mode = "Normal" /\ k = CharKey("/"))
                  => (r.picker.input_mode = "Search" /\ r.picker.query = query)
            /\ (input_mode = "Search" /\ k = Bare("Esc"))
                  => r.picker.input_mode = "Normal"
            /\ (k.bare = "Char" /\ k.ch = "c" /\ "Ctrl" \in k.mods)
                  => (r.resp = Cancel /\ ~r.panic)
            /\ r.picker.input_mode # input_mode
                  => \/ (input_mode = "Normal" /\ k = CharKey("/"))
                     \/ (input_mode = "Search" /\ k = Bare("Esc"))
            /\ (input_mode = "Search" /\ k = CharKey("/"))
                  => /\ r.picker.input_mode = "Search"
                     /\ r.picker.query = query \o <<"/">>

\* `/` was typed in Search mode and went to the query.
C9_Witness ==
    /\ arms = <<"none", "push">>
    /\ input_mode = "Search"
    /\ query = <<"/">>

\* C10: in Search mode a character without modifiers is appended to the
\* query, Ctrl+U empties the query and Backspace removes its last character;
\* after each the results are the re-rank under the new query and
\* `selected` is 0.
C10_QueryEdits ==
    input_mode = "Search"
    => \A k \in Keys :
          LET r == handle_key(Picker, k)
              edited(q) ==
                  /\ ~r.panic
                  /\ r.resp = None
                  /\ r.picker.query = q
                  /\ r.picker.search_results
                        = Rerank(all_entries, q, case_matching, match_paths)
                  /\ r.picker.selected = 0
          IN  /\ (k.bare = "Char" /\ k.mods = {}) => edited(query \o <<k.ch>>)
              /\ k = CtrlKey("u") => edited(<<>>)
              /\ k = Bare("Backspace")
                    => edited(IF query = <<>> THEN <<>>
                              ELSE SubSeq(query, 1, Len(query) - 1))

\* A character was typed in Search mode, and the query it made matches
\* several entries.
C10_Witness ==
    /\ arms = <<"none", "push">>
    /\ input_mode = "Search"
    /\ query # <<>>
    /\ query[Len(query)] = "a"
    /\ Len(search_results) >= 2
    /\ selected = 0

\* C11: in Normal mode an unmodified digit d in 1..8 returns Select of the
\* ranked result at index d-1 when there are at least d results and no
\* Response otherwise, an unmodified 9 returns Select of the last ranked
\* result (no Response on an empty list), and none of these keys changes the
\* selected index, the query, the mode or the redraw flag.
C11_NumericShortcuts ==
    input_mode = "Normal"
    => \A c \in Digits :
          LET r == handle_key(Picker, CharKey(c))
              n == Len(search_results)
              d == CHOOSE i \in 1..9 :
                      c = <<"1", "2", "3", "4", "5", "6", "7", "8", "9">>[i]
          IN  /\ ~r.panic
              /\ r.picker = Picker
              /\ d <= 8 => r.resp = IF n >= d
                                    THEN RespSelect(search_results[d].entry)
                                    ELSE None
              /\ d = 9 => r.resp = IF n >= 1
                                   THEN RespSelect(search_results[n].entry)
                                   ELSE None

\* `2` was pressed in Normal mode with the first result selected, and
\* returned the second result.
C11_Witness ==
    /\ arms = <<"none", "digit">>
    /\ input_mode = "Normal"
    /\ Len(search_results) >= 2
    /\ selected = 0
    /\ response = RespSelect(search_results[2].entry)

\* The position of the earliest matched character of a result (-1: none).
Earliest(r) ==
    IF r.indices = <<>> THEN -1
    ELSE CHOOSE x \in { r.indices[i] : i \in 1..Len(r.indices) } :
            \A i \in 1..Len(r.indices) : x <= r.indices[i]

\* a goes strictly before b: by score descending, then by the position of
\* the earliest matched character ascending, then by string ascending.
GoesBefore(a, b) ==
    \/ a.score > b.score
    \/ a.score = b.score /\ Earliest(a) < Earliest(b)
    \/ a.score = b.score /\ Earliest(a) = Earliest(b)
          /\ StrLess(a.entry.string, b.entry.string)

\* C12: after every re-rank the result list is ordered by score descending,
\* then by the position of the earliest matched character ascending, then
\* by entry string ascending, and holds no entry the oracle reports as no
\* match, whatever the oracle answers (matched positions in any order).
C12_RankOrder ==
    /\ \A i, j \in 1..Len(search_results) :
          i < j => ~GoesBefore(search_results[j], search_results[i])
    /\ \A i \in 1..Len(search_results) :
          \E j \in 1..Len(all_entries) :
             /\ all_entries[j] = search_results[i].entry
             /\ Ask(Picker)[j].matched

\* How many times entry e occurs in the sequence of entries es.
Occurrences(es, e) == Cardinality({ i \in 1..Len(es) : es[i] = e })

ResultEntries == [i \in 1..Len(search_results) |-> search_results[i].entry]

\* C13 as claimed: whenever the query is empty every entry of all_entries
\* appears in search_results and the result count equals the entry count,
\* however the scoring oracle answers for an empty query.
C13_EmptyQueryPassthrough ==
    query = <<>>
    => /\ Len(search_results) = Len(all_entries)
       /\ \A i \in 1..Len(all_entries) :
             Occurrences(ResultEntries, all_entries[i])
                = Occurrences(all_entries, all_entries[i])

\* C13 as amended: whenever the query is empty, search_results holds exactly
\* the entries of all_entries that the oracle matches for the empty query;
\* it holds every entry, and as many results as entries, when the oracle
\* matches every entry for the empty query, as nucleo_matcher does.
C13_EmptyQueryMatched ==
    query = <<>>
    => LET matched == { i \in 1..Len(all_entries) : Ask(Picker)[i].matched }
       IN  /\ Len(search_results) = Cardinality(matched)
           /\ \A i \in matched :
                 Occurrences(ResultEntries, all_entries[i])
                    = Cardinality({ j \in matched :
                                       all_entries[j] = all_entries[i] })
           /\ (oracle = Nucleo \/ matched = 1..Len(all_entries))
                 => /\ Len(search_results) = Len(all_entries)
                    /\ \A i \in 1..Len(all_entries) :
                          Occurrences(ResultEntries, all_entries[i])
                             = Occurrences(all_entries, all_entries[i])

\* The last character of the query was deleted, and an oracle that matches
\* every entry for the empty query, with score 0, brought all of them back.
C13_Witness ==
    /\ arms = <<"none", "pop">>
    /\ query = <<>>
    /\ oracle # Nucleo
    /\ Len(all_entries) = 2
    /\ Len(search_results) = 2
    /\ search_results[1].score = 0

\* C14: for every rows >= 2 and `selected` in range, the visible slice of
\* render is results[page*page_size .. page*page_size+page_size) with
\* page_size = rows-1 and page = selected / page_size; it holds at most
\* page_size results, contains the selected result, and the frame marks it
\* at local row selected % page_size.
C14_Pagination ==
    \A rows \in 2..MaxFrameRows :
        selected < Len(search_results)
        => LET page_size == rows - 1
               page      == selected \div page_size
               n         == Len(search_results)
               vis       == visible_entries(Picker, rows)
           IN  /\ Len(vis) <= page_size
               /\ Len(vis) = IF n - page * page_size < page_size
                             THEN n - page * page_size ELSE page_size
               /\ \A i \in 1..Len(vis) :
                     vis[i] = search_results[page * page_size + i]
               /\ selected % page_size < Len(vis)
               /\ vis[(selected % page_size) + 1] = search_results[selected + 1]
               /\ \A cols \in 6..MaxCols, checked \in BOOLEAN :
                     LET frame == Frame(Picker, rows, cols, checked)
                     IN  /\ Len(frame) = Len(vis) + 1
                         /\ \A i \in 1..Len(vis) :
                               (frame[i + 1][1] = Cell(">", "Yellow"))
                                  <=> (i - 1 = selected % page_size)

\* A frame was rendered with the last of nine results selected: with five
\* rows its page starts at result 8.
C14_Witness ==
    /\ ~needs_redraw
    /\ ~panicked
    /\ Len(search_results) = 9
    /\ selected = 8
    /\ visible_entries(Picker, 5) = <<search_results[9]>>

\* C15: render(rows, cols) changes no picker state other than setting
\* `needs_redraw` to false, a second render with the same rows and cols
\* prints the same frame as the first, and render with rows = 0 prints
\* nothing and changes nothing.
C15_RenderPure ==
    \A rows \in 0..MaxFrameRows, cols \in 0..MaxCols, checked \in BOOLEAN :
        LET r == render(Picker, rows, cols, checked)
        IN  /\ r.picker \in { Picker, [Picker EXCEPT !.needs_redraw = FALSE] }
            /\ (rows >= 2 /\ ~r.panic) => ~r.picker.needs_redraw
            /\ render(r.picker, rows, cols, checked).panic = r.panic
            /\ Frame(r.picker, rows, cols, checked)
                  = Frame(Picker, rows, cols, checked)
            /\ rows = 0 => /\ r.picker = Picker
                           /\ ~r.panic
                           /\ Frame(Picker, rows, cols, checked) = <<>>

\* A frame was rendered of a picker with a query, several results and a
\* selection that is not the first result.
C15_Witness ==
    /\ ~needs_redraw
    /\ ~panicked
    /\ query # <<>>
    /\ Len(search_results) >= 3
    /\ selected = 2

\* C16: render with rows = 1 completes without a fault and shows the query
\* line and no result row, in every reachable state.
C16_OneRow ==
    \A cols \in 0..MaxCols, checked \in BOOLEAN :
        /\ ~render(Picker, 1, cols, checked).panic
        /\ Frame(Picker, 1, cols, checked) = <<QueryLine(Picker)>>

\* The display columns of a line of the frame.
Columns(line) == Len(line)

\* C18: for every frame width cols >= 0 and every entry string, no rendered
\* result row is wider than cols display columns, and the computation of
\* cols - 6 never underflows.
C18_RowFits ==
    \A rows \in 2..MaxFrameRows, cols \in 0..MaxCols, checked \in BOOLEAN :
        /\ ~ColsUnderflow(Picker, rows, cols)
        /\ ~render(Picker, rows, cols, checked).panic
        /\ \A i \in 2..Len(Frame(Picker, rows, cols, checked)) :
              Columns(Frame(Picker, rows, cols, checked)[i]) <= cols

\* C17: a key with a global binding (Tab, Down, Shift+Tab, Up, Esc, Ctrl+C,
\* Enter) has only its global effect: the handler of the mode adds nothing,
\* the query and the result list stay as they are, and the effect on
\* `selected` and the Response are the same in Normal and in Search mode.
C17_GlobalBindingsOnly ==
    \A k \in Keys :
        global_binding(k) # "none"
        => LET r      == handle_key(Picker, k)
               normal == handle_key([Picker EXCEPT !.input_mode = "Normal"], k)
               srch   == handle_key([Picker EXCEPT !.input_mode = "Search"], k)
           IN  /\ r = handle_global_key(Picker, k)
               /\ r.picker.query = query
               /\ r.picker.search_results = search_results
               /\ normal.picker.selected = srch.picker.selected
               /\ normal.resp = srch.resp
               /\ normal.panic = srch.panic
               /\ normal.picker.query = srch.picker.query
               /\ normal.picker.search_results = srch.picker.search_results

\* Tab was pressed in Search mode with a query typed, and moved the
\* selection to the second result.
C17_Witness ==
    /\ arms = <<"down", "none">>
    /\ input_mode = "Search"
    /\ query # <<>>
    /\ Len(search_results) >= 2
    /\ selected = 1

StoreEntries == { all_entries[i] : i \in 1..Len(all_entries) }

\* C19: every result in `search_results` carries the string and payload of
\* an element of the current `all_entries`, and every Select response (from
\* Enter or a digit key) returns an entry that is in the store at that
\* moment.
C19_ResultsFromStore ==
    /\ \A i \in 1..Len(search_results) :
          search_results[i].entry \in StoreEntries
    /\ response.kind = "Select" => response.entry \in StoreEntries

\* `9` returned the only entry of the store, which is not the first entry
\* of the pool.
C19_Witness ==
    /\ arms = <<"none", "last">>
    /\ Len(all_entries) = 1
    /\ response = RespSelect(Entry(<<"A", "a">>, 2))

\* C20: in Normal mode no key event changes the query or the result list;
\* characters typed in Normal mode (j, k, digits, `/`) never reach the
\* query.
C20_NormalKeepsQuery ==
    input_mode = "Normal"
    => \A k \in Keys :
          LET r == handle_key(Picker, k)
          IN  /\ r.picker.query = query
              /\ r.picker.search_results = search_results

\* j was pressed in Normal mode with a query typed earlier, and moved the
\* selection.
C20_Witness ==
    /\ arms = <<"none", "down">>
    /\ input_mode = "Normal"
    /\ query = <<"a">>
    /\ Len(search_results) >= 2
    /\ selected = 1

====
